---- MODULE Spec2Model ----
(***************************************************************************)
(* The tamper-evident evidence ledger of regulation-monitor:               *)
(*   backend/audit_layer/audit_chain_service.py   (AuditChainService)      *)
(*   backend/evidence_layer/evidence_service.py   (EvidenceService)        *)
(*   backend/evidence_layer/api.py, backend/audit_layer/api.py             *)
(*                                                                         *)
(* Hashes are symbolic: compute_hash(x) is the one-element tuple <<x>>, so *)
(* SHA-256 is modelled as collision-free.  Texts produced by formatting    *)
(* (str(datetime), datetime.isoformat(), json.dumps) are modelled by the   *)
(* value that determines them, with the separator character kept.          *)
(***************************************************************************)
EXTENDS Integers, Sequences, FiniteSets, TLC

\* ---------------------------------------------------------------- bounds
MaxCaptures == 3   \* capture requests in a run
MaxClock == 2      \* the last second the clock reaches
NumSuffix == 1     \* distinct values of the random id suffix

Requests == 1..MaxCaptures
Payloads == {"pan_found"}
\* the content an edit of a stored record puts in place of the captured one
AlteredPayload == "pan_masked"
Suffixes == 1..NumSuffix
\* the activities the cognitive agent logs in a run
MaxActivities == 4
\* `limit: int = 50` of /agent/agent-activity, and the 50 of /agent/activity
DefaultLimit == 50

\* ------------------------------------------------------- values and texts
\* A datetime object (naive UTC), and the two texts Python makes of it.
Datetime(t) == [py |-> "datetime", sep |-> "", t |-> t]
\* str(dt), what json.dumps(..., default=str) writes for a datetime
StrOfDatetime(dt) == [py |-> "str", sep |-> " ", t |-> dt.t]
\* dt.isoformat(), also what model_dump(mode='json') writes for a datetime
isoformat(dt) == [py |-> "str", sep |-> "T", t |-> dt.t]
\* datetime.fromisoformat(text): any single separator character is accepted
fromisoformat(s) == Datetime(s.t)

None == <<>>
NoId == [sec |-> 0, rnd |-> 0]
NoEvidence == [evidence_id |-> NoId, payload |-> "", timestamp |-> Datetime(0)]

\* hashlib.sha256(data.encode()).hexdigest(), collision-free
compute_hash(data) == <<data>>

\* EvidenceRecord.model_dump(): python mode, the timestamp stays a datetime
model_dump(e) == [evidence_id |-> e.evidence_id, payload |-> e.payload,
                  timestamp |-> e.timestamp]

\* a value as model_dump(mode='json') writes it: datetimes become ISO texts
JsonValue(v) == IF v.py = "datetime" THEN isoformat(v) ELSE v

\* a value as json.dumps(..., default=str) writes it
DumpsValue(v) == IF v.py = "datetime" THEN StrOfDatetime(v) ELSE v

\* json.dumps(evidence_data, sort_keys=True, default=str)
json_dumps(d) == [d EXCEPT !.timestamp = DumpsValue(@)]

\* f"{previous_hash or ''}{data_hash}{timestamp.isoformat()}"
hash_input(previous_hash, data_hash, timestamp) ==
    [prev |-> previous_hash, data |-> data_hash, ts |-> isoformat(timestamp)]

create_node(evidence, previous_hash, sequence_number) ==
    LET evidence_json == json_dumps(model_dump(evidence))
        data_hash == compute_hash(evidence_json)
        record_hash == compute_hash(hash_input(previous_hash, data_hash, evidence.timestamp))
    IN [evidence_id |-> evidence.evidence_id,
        previous_hash |-> previous_hash,
        timestamp |-> evidence.timestamp,
        evidence_data |-> model_dump(evidence),
        data_hash |-> data_hash,
        record_hash |-> record_hash,
        sequence_number |-> sequence_number]

\* --- the same line 82 with the order of the keys kept: a dict is the sequence
\* of its items in insertion order, an item is [key, text, items] with `text`
\* a scalar value and `items` a nested dict (one of the two is empty)
Scalar(key, text) == [key |-> key, text |-> text, items |-> <<>>]
Nested(key, items) == [key |-> key, text |-> "", items |-> items]

\* the order of the keys as strings
KeyRank == [clause |-> 1, detection |-> 2, framework |-> 3, regulation |-> 4]

\* a slip: sort_keys is left out, the items are written in insertion order
json_dumps_sort_keys_missing(d) == d

\* json.dumps(d, sort_keys=True): the items of every dict, nested ones
\* included, are written in the order of their keys
RECURSIVE json_dumps_sort_keys(_)
json_dumps_sort_keys(d) ==
    IF d = <<>> THEN <<>>
    ELSE LET rest == json_dumps_sort_keys(SubSeq(d, 1, Len(d) - 1))
             last == d[Len(d)]
             item == [last EXCEPT !.items = json_dumps_sort_keys(@)]
             Before(x) == KeyRank[x.key] <= KeyRank[item.key]
             After(x) == KeyRank[x.key] > KeyRank[item.key]
         IN SelectSeq(rest, Before) \o <<item>> \o SelectSeq(rest, After)

\* create_node, lines 82-83: the data_hash of a record's content
data_hash_of(d) == compute_hash(json_dumps_sort_keys(d))

get_latest_node(chain) == IF Len(chain) > 0 THEN <<chain[Len(chain)]>> ELSE None

\* a slip: the hash of the first node is taken instead of the last one's
tail_hash_of_first(chain) ==
    IF Len(chain) > 0 THEN chain[1].record_hash ELSE None

\* append, lines 102-103: the hash the new node chains to
tail_hash(chain) ==
    LET last_node == get_latest_node(chain)
    IN IF last_node # None THEN last_node[1].record_hash ELSE None

\* a slip: positions counted from one
next_sequence_number_from_one(chain) == Len(chain) + 1

\* append, line 104
next_sequence_number(chain) == Len(chain)

\* ------------------------------------------------------------ persistence
\* AuditChainNode.model_dump(mode='json')
NodeToJson(n) == [n EXCEPT !.timestamp = JsonValue(@),
                           !.evidence_data = [@ EXCEPT !.timestamp = JsonValue(@)]]

\* the "chain" list _save_chain_to_file writes
ChainToJson(chain) == [i \in 1..Len(chain) |-> NodeToJson(chain[i])]

\* one node_dict of the file made an AuditChainNode by _load_chain_from_file
NodeFromJson(j) == [j EXCEPT !.timestamp = fromisoformat(@)]

\* the chain_store _load_chain_from_file builds; an unreadable file is logged
\* and leaves the store empty
LoadChain(file) ==
    IF file.ok THEN [i \in 1..Len(file.chain) |-> NodeFromJson(file.chain[i])]
    ELSE <<>>

\* EvidenceRecord.model_dump(mode='json')
EvidenceToJson(e) == [e EXCEPT !.timestamp = JsonValue(@)]

\* EvidenceRecord(**evidence_dict): pydantic parses the timestamp text
EvidenceFromJson(j) == [j EXCEPT !.timestamp = fromisoformat(@)]

\* evidence_store is a dict (insertion-ordered): a sequence of records with
\* distinct evidence_ids
HasKey(store, id) == \E i \in 1..Len(store) : store[i].evidence_id = id

StorePut(store, e) ==
    IF HasKey(store, e.evidence_id)
    THEN [i \in 1..Len(store) |->
            IF store[i].evidence_id = e.evidence_id THEN e ELSE store[i]]
    ELSE Append(store, e)

StoreIds(store) == {store[i].evidence_id : i \in 1..Len(store)}

RECURSIVE LoadEvidenceFrom(_, _)
LoadEvidenceFrom(list, store) ==
    IF list = <<>> THEN store
    ELSE LoadEvidenceFrom(Tail(list), StorePut(store, EvidenceFromJson(Head(list))))

LoadEvidence(file) == IF file.ok THEN LoadEvidenceFrom(file.evidence, <<>>) ELSE <<>>

EvidenceListToJson(store) == [i \in 1..Len(store) |-> EvidenceToJson(store[i])]

EmptyChainFile == [ok |-> TRUE, chain |-> <<>>]
EmptyEvidenceFile == [ok |-> TRUE, evidence |-> <<>>]
\* a file left truncated by a write that failed after open(path, 'w')
TruncatedChainFile == [ok |-> FALSE, chain |-> <<>>]
TruncatedEvidenceFile == [ok |-> FALSE, evidence |-> <<>>]

WriteOutcomes == {"ok", "not_opened", "truncated"}

\* ------------------------------------------------------------ verification
\* One entry of verify_chain's errors list: `keys` are the keys the dict
\* carries; `pos` is the position the walk was at (1-based), kept so that a
\* finding can be told from another one when evidence_ids repeat.
Finding(pos, node, issue, keys) ==
    [pos |-> pos, node |-> node.evidence_id, sequence |-> node.sequence_number,
     issue |-> issue, keys |-> keys]

GenesisFindings(chain) ==
    IF chain[1].previous_hash # None
    THEN <<Finding(1, chain[1], "Genesis node should have null previous_hash",
                   {"node", "issue", "actual"})>>
    ELSE <<>>

\* a slip: the walk over the links is left out
LinkFindings_skipped(chain, i) == <<>>

RECURSIVE LinkFindings(_, _)
LinkFindings(chain, i) ==
    IF i > Len(chain) THEN <<>>
    ELSE (IF chain[i].previous_hash # chain[i-1].record_hash
          THEN <<Finding(i, chain[i], "Hash mismatch - chain broken",
                         {"node", "sequence", "expected_hash", "actual_hash", "issue"})>>
          ELSE <<>>) \o LinkFindings(chain, i + 1)

\* a slip: the record_hash of a node is not recomputed
NodeFindings_data_only(chain, i) ==
    LET node == chain[i]
        expected_data_hash == compute_hash(json_dumps(node.evidence_data))
    IN IF node.data_hash # expected_data_hash
       THEN <<Finding(i, node, "Data hash mismatch", {"node", "issue", "expected", "actual"})>>
       ELSE <<>>

NodeFindings(chain, i) ==
    LET node == chain[i]
        expected_data_hash == compute_hash(json_dumps(node.evidence_data))
        expected_record_hash ==
            compute_hash(hash_input(node.previous_hash, node.data_hash, node.timestamp))
    IN (IF node.data_hash # expected_data_hash
        THEN <<Finding(i, node, "Data hash mismatch",
                       {"node", "issue", "expected", "actual"})>>
        ELSE <<>>)
       \o
       (IF node.record_hash # expected_record_hash
        THEN <<Finding(i, node, "Record hash mismatch",
                       {"node", "issue", "expected", "actual"})>>
        ELSE <<>>)

RECURSIVE HashFindings(_, _)
HashFindings(chain, i) ==
    IF i > Len(chain) THEN <<>>
    ELSE NodeFindings(chain, i) \o HashFindings(chain, i + 1)

\* a slip: only the empty ledger is answered without a walk
verify_chain_walks_single(chain) ==
    IF Len(chain) = 0 THEN [valid |-> TRUE, message |-> "Empty chain", errors |-> <<>>]
    ELSE LET errors == GenesisFindings(chain) \o LinkFindings(chain, 2)
                       \o HashFindings(chain, 1)
         IN [valid |-> Len(errors) = 0, message |-> "", errors |-> errors]

verify_chain(chain) ==
    IF Len(chain) = 0 THEN [valid |-> TRUE, message |-> "Empty chain", errors |-> <<>>]
    ELSE IF Len(chain) = 1
    THEN [valid |-> TRUE, message |-> "Single node (genesis)", errors |-> <<>>]
    ELSE LET errors == GenesisFindings(chain) \o LinkFindings(chain, 2)
                       \o HashFindings(chain, 1)
         IN [valid |-> Len(errors) = 0, message |-> "", errors |-> errors]

\* verify_chain, lines 196-200: the total_nodes of the answer of a walk; the
\* answers for no node and for one node carry no such key
total_nodes(chain) == IF Len(chain) >= 2 THEN <<Len(chain)>> ELSE None

\* GET /audit/trail without dates: get_all_nodes of the service it is asked of
get_audit_trail(chain) == [count |-> Len(chain), chain |-> chain]

\* EvidenceService.get_evidence: evidence_store.get(evidence_id)
get_evidence(store, id) ==
    IF HasKey(store, id)
    THEN <<CHOOSE e \in {store[i] : i \in 1..Len(store)} : e.evidence_id = id>>
    ELSE None

\* evidence.metadata.get("tenant_id"): every record of the model carries the
\* metadata the monitoring agent sends with a capture
tenant_id_of(e) == "visa"

\* sorted(results, key=lambda e: e.timestamp): a stable sort
RECURSIVE sorted_by_timestamp(_)
sorted_by_timestamp(results) ==
    IF results = <<>> THEN <<>>
    ELSE LET rest == sorted_by_timestamp(SubSeq(results, 1, Len(results) - 1))
             e == results[Len(results)]
             Before(x) == x.timestamp.t <= e.timestamp.t
             After(x) == x.timestamp.t > e.timestamp.t
         IN SelectSeq(rest, Before) \o <<e>> \o SelectSeq(rest, After)

get_evidence_in_range(store, start_date, end_date, tenant_id) ==
    LET Wanted(e) == /\ start_date <= e.timestamp.t /\ e.timestamp.t <= end_date
                     /\ (tenant_id = None \/ tenant_id_of(e) = tenant_id[1])
    IN sorted_by_timestamp(SelectSeq(store, Wanted))

\* list(self.evidence_store.values())
list_all_evidence(store) == store

\* GET /evidence: the optional query parameters are None or a one-element tuple
list_evidence(store, start_date, end_date, tenant_id) ==
    LET evidence_records ==
            IF start_date # None /\ end_date # None
            THEN get_evidence_in_range(store, start_date[1], end_date[1], tenant_id)
            ELSE list_all_evidence(store)
    IN [count |-> Len(evidence_records), evidence |-> evidence_records]

\* GET /evidence/{id} and GET /audit/explanation/{id}: 404 when the service
\* the route asks has no such record
RouteAnswer(store, id) ==
    IF get_evidence(store, id) = None THEN "Evidence not found" ELSE "ok"

NoVerification == [valid |-> TRUE, message |-> "not called", errors |-> <<>>]

\* ------------------------------------------------------------------ state
VARIABLES
    clock,            \* the wall clock read by datetime.utcnow() / time.time()
    evidence_store,   \* EvidenceService.evidence_store of evidence_layer/api.py
    chain_store,      \* AuditChainService.chain_store of evidence_layer/api.py
    evidence_file,    \* data/evidence.json
    chain_file,       \* data/audit_chain.json
    audit_evidence_store,  \* EvidenceService.evidence_store of audit_layer/api.py
    audit_chain_store,     \* AuditChainService.chain_store of audit_layer/api.py
    req,              \* the capture requests: position and locals of each
    verification,     \* what the last GET /audit/verify returned
    restarted,        \* history: the process has restarted since the ledger was empty
    load_failed,      \* history: the last start could not read data/audit_chain.json
    tamper,           \* history: the edit made to data/audit_chain.json from outside
    ingest,           \* the /monitor/ingest requests: position and locals of each
    violations,       \* data/violations.json: the "violations" list
    activity_log,     \* cognitive_agent/api.py: the module-level activity_log list
    activity_response,  \* what the last activity query returned
    probe             \* two evidence contents and the data_hash create_node gives each

vars == <<clock, evidence_store, chain_store, evidence_file, chain_file,
          audit_evidence_store, audit_chain_store, req, verification, restarted,
          load_failed, tamper, ingest, violations, activity_log, activity_response, probe>>

\* the state of the monitoring agent, of the cognitive agent and of the probe
\* of create_node, which the evidence and audit routes leave alone
agents == <<ingest, violations, activity_log, activity_response, probe>>

NewRequest == [pc |-> "new", evidence |-> NoEvidence, previous_hash |-> None,
               sequence_number |-> 0, index_saved |-> TRUE, chain_saved |-> TRUE,
               response |-> "none"]

NoTamper == [kind |-> "none", pos |-> 0, loaded |-> FALSE]

\* an IngestRequest not yet received: `response` is what the capture call
\* returned to it, `failed` that the capture call raised, `answer` what the
\* request has been answered
NewIngest == [pc |-> "new", response |-> None, failed |-> FALSE, answer |-> "none"]

NoProbe == [first |-> <<>>, second |-> <<>>, hashes |-> <<>>]

Init ==
    /\ clock = 1
    /\ evidence_store = <<>>
    /\ chain_store = <<>>
    /\ evidence_file = EmptyEvidenceFile
    /\ chain_file = EmptyChainFile
    /\ audit_evidence_store = <<>>
    /\ audit_chain_store = <<>>
    /\ req = [r \in Requests |-> NewRequest]
    /\ verification = NoVerification
    /\ restarted = FALSE
    /\ load_failed = FALSE
    /\ tamper = NoTamper
    /\ ingest = [r \in Requests |-> NewIngest]
    /\ violations = <<>>
    /\ activity_log = <<>>
    /\ activity_response = None
    /\ probe = NoProbe

\* a request whose response has been delivered (or that was lost in a restart)
\* is forgotten once a later request arrives
Retired == [NewRequest EXCEPT !.pc = "done"]

InFlight(r) == req[r].pc \in {"save_index", "read_tail", "create", "save_chain"}

Idle == \A r \in Requests : ~InFlight(r)

\* a slip: the handler is a plain `def`, which the server runs on a thread pool
HandlerMayStart_threaded(r) == TRUE

\* POST /evidence/capture is an `async def` handler whose body never awaits:
\* the event loop runs it to completion before it starts another one.
HandlerMayStart(r) == \A q \in Requests : ~InFlight(q)

\* ---------------------------------------------------------------- actions
\* f"EVID-{int(time.time())}-{uuid.uuid4().hex[:6].upper()}"
generate_evidence_id(now, u) == [sec |-> now, rnd |-> u]

\* the clock readings a capture may see: time does not run backwards
Now == {t \in clock..(clock + 1) : t <= MaxClock}

\* capture_evidence, lines 86-102: the record is built and stored in memory
CaptureBegin(r, payload, u, now) ==
    /\ req[r].pc = "new"
    /\ \A q \in Requests : q < r => req[q].pc # "new"
    /\ HandlerMayStart(r)
    /\ clock' = now
    /\ LET evidence == [evidence_id |-> generate_evidence_id(now, u), payload |-> payload,
                        timestamp |-> Datetime(now)]
       IN /\ evidence_store' = StorePut(evidence_store, evidence)
          /\ req' = [q \in Requests |->
                       IF q = r THEN [req[r] EXCEPT !.pc = "save_index", !.evidence = evidence]
                       ELSE IF req[q].pc \in {"returned", "lost"} THEN Retired
                       ELSE req[q]]
    /\ UNCHANGED <<chain_store, evidence_file, chain_file, audit_evidence_store,
                   audit_chain_store, verification, restarted, load_failed, tamper>>

\* request bodies that fail validation: CaptureEvidenceRequest requires
\* event_type, regulation and detection
MalformedPayloads == {"no_regulation"}

\* a slip: the record is stored and saved before it is validated
CaptureMalformed_after_store(r, payload) ==
    /\ req[r].pc = "new"
    /\ \A q \in Requests : q < r => req[q].pc # "new"
    /\ HandlerMayStart(r)
    /\ LET evidence == [evidence_id |-> generate_evidence_id(clock, 1), payload |-> payload,
                        timestamp |-> Datetime(clock)]
       IN /\ evidence_store' = StorePut(evidence_store, evidence)
          /\ evidence_file' = [ok |-> TRUE, evidence |->
                                 EvidenceListToJson(StorePut(evidence_store, evidence))]
    /\ req' = [req EXCEPT ![r].pc = "rejected", ![r].response = "error"]
    /\ UNCHANGED <<clock, chain_store, chain_file, audit_evidence_store,
                   audit_chain_store, verification, restarted, load_failed, tamper>>

\* POST /evidence/capture with a body that fails validation: the request
\* model (422) or EvidenceRecord(...) at lines 88-99 (500) raises before
\* line 102 stores anything
CaptureMalformed(r, payload) ==
    /\ req[r].pc = "new"
    /\ \A q \in Requests : q < r => req[q].pc # "new"
    /\ HandlerMayStart(r)
    /\ req' = [req EXCEPT ![r].pc = "rejected", ![r].response = "error"]
    /\ UNCHANGED <<clock, evidence_store, chain_store, evidence_file, chain_file,
                   audit_evidence_store, audit_chain_store, verification, restarted,
                   load_failed, tamper>>

\* _save_to_file: every exception is logged and swallowed
SaveIndexFile(outcome) ==
    CASE outcome = "ok" -> [ok |-> TRUE, evidence |-> EvidenceListToJson(evidence_store)]
      [] outcome = "not_opened" -> evidence_file
      [] outcome = "truncated" -> TruncatedEvidenceFile

\* capture_evidence, line 105
CaptureSaveIndex(r, outcome) ==
    /\ req[r].pc = "save_index"
    /\ evidence_file' = SaveIndexFile(outcome)
    /\ req' = [req EXCEPT ![r].pc = "read_tail", ![r].index_saved = (outcome = "ok")]
    /\ UNCHANGED <<clock, evidence_store, chain_store, chain_file, audit_evidence_store,
                   audit_chain_store, verification, restarted, load_failed, tamper>>

\* append, lines 102-104: the tail is read
AppendReadTail(r) ==
    /\ req[r].pc = "read_tail"
    /\ req' = [req EXCEPT ![r].pc = "create",
                          ![r].previous_hash = tail_hash(chain_store),
                          ![r].sequence_number = next_sequence_number(chain_store)]
    /\ UNCHANGED <<clock, evidence_store, chain_store, evidence_file, chain_file,
                   audit_evidence_store, audit_chain_store, verification, restarted, load_failed, tamper>>

\* a slip: every append recomputes the data_hash of the nodes already there
AppendNode_rehashing(r) ==
    /\ req[r].pc = "create"
    /\ chain_store' =
          Append([i \in 1..Len(chain_store) |->
                    [chain_store[i] EXCEPT
                        !.data_hash = compute_hash(json_dumps(chain_store[i].evidence_data))]],
                 create_node(req[r].evidence, req[r].previous_hash, req[r].sequence_number))
    /\ req' = [req EXCEPT ![r].pc = "save_chain"]
    /\ UNCHANGED <<clock, evidence_store, evidence_file, chain_file, audit_evidence_store,
                   audit_chain_store, verification, restarted, load_failed, tamper>>

\* a slip: the node is put in front of the chain
AppendNode_at_head(r) ==
    /\ req[r].pc = "create"
    /\ chain_store' = <<create_node(req[r].evidence, req[r].previous_hash,
                                    req[r].sequence_number)>> \o chain_store
    /\ req' = [req EXCEPT ![r].pc = "save_chain"]
    /\ UNCHANGED <<clock, evidence_store, evidence_file, chain_file, audit_evidence_store,
                   audit_chain_store, verification, restarted, load_failed, tamper>>

\* append, lines 107-110: the node is created and added to the chain
AppendNode(r) ==
    /\ req[r].pc = "create"
    /\ chain_store' = Append(chain_store,
                             create_node(req[r].evidence, req[r].previous_hash,
                                         req[r].sequence_number))
    /\ req' = [req EXCEPT ![r].pc = "save_chain"]
    /\ UNCHANGED <<clock, evidence_store, evidence_file, chain_file, audit_evidence_store,
                   audit_chain_store, verification, restarted, load_failed, tamper>>

\* _save_chain_to_file: every exception is logged and swallowed
SaveChainFile(outcome) ==
    CASE outcome = "ok" -> [ok |-> TRUE, chain |-> ChainToJson(chain_store)]
      [] outcome = "not_opened" -> chain_file
      [] outcome = "truncated" -> TruncatedChainFile

\* what POST /evidence/capture answers once capture_evidence has returned:
\* neither save raises, so the except branch of the handler is never taken
CaptureResponse(index_saved, chain_saved) == "ok"

\* append, lines 113-116, the return of capture_evidence and the response
CaptureSaveChain(r, outcome) ==
    /\ req[r].pc = "save_chain"
    /\ chain_file' = SaveChainFile(outcome)
    /\ req' = [req EXCEPT ![r].pc = "returned", ![r].chain_saved = (outcome = "ok"),
                          ![r].response = CaptureResponse(req[r].index_saved, outcome = "ok")]
    /\ tamper' = IF tamper.loaded \/ outcome = "not_opened" THEN tamper ELSE NoTamper
    /\ UNCHANGED <<clock, evidence_store, chain_store, evidence_file, audit_evidence_store,
                   audit_chain_store, verification, restarted, load_failed>>

\* a slip: a ledger found invalid is dropped by the call that finds it
Verify_repairing ==
    /\ verification' = verify_chain(audit_chain_store)
    /\ audit_chain_store' = IF verify_chain(audit_chain_store).valid
                             THEN audit_chain_store ELSE <<>>
    /\ UNCHANGED <<clock, evidence_store, chain_store, evidence_file, chain_file,
                   audit_evidence_store, req, restarted, load_failed, tamper>>

\* GET /audit/verify: verify_chain of the audit API's own AuditChainService
Verify ==
    /\ verification' = verify_chain(audit_chain_store)
    /\ UNCHANGED <<clock, evidence_store, chain_store, evidence_file, chain_file,
                   audit_evidence_store, audit_chain_store, req, restarted, load_failed, tamper>>

\* The process stops (requests in flight are lost) and starts again: both API
\* modules construct their services, which load the two files.
Restart ==
    /\ chain_store' = LoadChain(chain_file)
    /\ evidence_store' = LoadEvidence(evidence_file)
    /\ audit_chain_store' = LoadChain(chain_file)
    /\ audit_evidence_store' = LoadEvidence(evidence_file)
    /\ req' = [r \in Requests |->
                 IF InFlight(r) THEN [req[r] EXCEPT !.pc = "lost"] ELSE req[r]]
    /\ verification' = NoVerification
    /\ restarted' = TRUE
    /\ load_failed' = ~chain_file.ok
    /\ tamper' = IF tamper.kind # "none" THEN [tamper EXCEPT !.loaded = TRUE] ELSE tamper
    /\ UNCHANGED <<clock, evidence_file, chain_file>>

\* _save_to_file of a store: every exception is logged and swallowed
WriteIndexFile(store, outcome) ==
    CASE outcome = "ok" -> [ok |-> TRUE, evidence |-> EvidenceListToJson(store)]
      [] outcome = "not_opened" -> evidence_file
      [] outcome = "truncated" -> TruncatedEvidenceFile

\* the `updates` dict a caller passes: new content for the record
Updates == {[payload |-> AlteredPayload]}

\* update_evidence, lines 124-128: the record rebuilt with the updates applied
updated_evidence(evidence, updates) == [evidence EXCEPT !.payload = updates.payload]

\* the evidence_ids a caller may name: those of the index and an unknown one
KnownOrUnknownIds == StoreIds(evidence_store) \cup {NoId}

\* a slip: the update is also written into the ledger node of the record
UpdateEvidence_into_ledger(id, updates, outcome) ==
    /\ Idle
    /\ IF HasKey(evidence_store, id)
       THEN LET evidence == CHOOSE e \in {evidence_store[i] : i \in 1..Len(evidence_store)} :
                                e.evidence_id = id
                store == StorePut(evidence_store, updated_evidence(evidence, updates))
            IN /\ evidence_store' = store
               /\ evidence_file' = WriteIndexFile(store, outcome)
               /\ chain_store' = [i \in 1..Len(chain_store) |->
                                    IF chain_store[i].evidence_id = id
                                    THEN [chain_store[i] EXCEPT !.evidence_data =
                                            model_dump(updated_evidence(evidence, updates))]
                                    ELSE chain_store[i]]
       ELSE UNCHANGED <<evidence_store, evidence_file, chain_store>>
    /\ UNCHANGED <<clock, chain_file, audit_evidence_store, audit_chain_store,
                   req, verification, restarted, load_failed, tamper>>

\* EvidenceService.update_evidence of the evidence API's service
UpdateEvidence(id, updates, outcome) ==
    /\ Idle
    /\ IF HasKey(evidence_store, id)
       THEN LET evidence == CHOOSE e \in {evidence_store[i] : i \in 1..Len(evidence_store)} :
                                e.evidence_id = id
                store == StorePut(evidence_store, updated_evidence(evidence, updates))
            IN /\ evidence_store' = store
               /\ evidence_file' = WriteIndexFile(store, outcome)
       ELSE UNCHANGED <<evidence_store, evidence_file>>
    /\ UNCHANGED <<clock, chain_store, chain_file, audit_evidence_store, audit_chain_store,
                   req, verification, restarted, load_failed, tamper>>

\* ------------------------------------------------------- monitoring agent
\* ViolationStore.generate_violation_id / generate_compliant_id: the prefix
\* and the count of the records in the file plus one
violation_id(prefix, stored) == [prefix |-> prefix, count |-> Len(stored) + 1]

\* ViolationStore.add_violation: the list is read, appended to and written
add_violation(stored, evidence_id, source_id, severity) ==
    Append(stored, [violation_id |-> violation_id("VIOL", stored), evidence_id |-> evidence_id,
                    source_id |-> source_id, severity |-> severity])

\* ViolationStore.add_compliant_record: evidence_id is "N/A", severity "None"
add_compliant_record(stored, source_id) ==
    Append(stored, [violation_id |-> violation_id("COMP", stored), evidence_id |-> NoId,
                    source_id |-> source_id, severity |-> "None"])

\* ingest_data, lines 51-75 and 96-119: the content is scanned; without a
\* finding a compliant record is stored and the request answered, with one
\* the violation object is built and the capture call is about to be made
IngestDetect(i, found) ==
    /\ ingest[i].pc = "new"
    /\ IF found
       THEN /\ ingest' = [ingest EXCEPT ![i].pc = "capturing"]
            /\ UNCHANGED violations
       ELSE /\ violations' = add_compliant_record(violations, i)
            /\ ingest' = [ingest EXCEPT ![i].pc = "answered", ![i].answer = "no_violation"]
    /\ UNCHANGED <<activity_log, activity_response, probe>>

\* the response of POST /evidence/capture reaches the ingest request that
\* awaits it
IngestReceive(i, evidence_id) ==
    /\ ingest' = IF ingest[i].pc = "capturing"
                 THEN [ingest EXCEPT ![i].response = <<evidence_id>>]
                 ELSE ingest
    /\ UNCHANGED <<violations, activity_log, activity_response, probe>>

\* a slip: the exception of the capture call is swallowed and the violation
\* is stored without an evidence_id
IngestCaptureFails_recorded(i) ==
    /\ ingest[i].pc = "capturing"
    /\ ingest[i].response = None
    /\ violations' = add_violation(violations, NoId, i, "CRITICAL")
    /\ ingest' = [ingest EXCEPT ![i].pc = "answered", ![i].failed = TRUE,
                                ![i].answer = "violation_detected"]
    /\ UNCHANGED <<activity_log, activity_response, probe>>

\* evidence_client.capture_evidence raises (no connection, timeout, error
\* status): the except branch of ingest_data answers 500, lines 152-156
IngestCaptureFails(i) ==
    /\ ingest[i].pc = "capturing"
    /\ ingest[i].response = None
    /\ ingest' = [ingest EXCEPT ![i].pc = "answered", ![i].failed = TRUE,
                                ![i].answer = "error"]
    /\ UNCHANGED <<violations, activity_log, activity_response, probe>>

\* ingest_data, lines 122-150: the capture call has returned, the violation
\* is stored with the evidence_id and the request answered
IngestStore(i) ==
    /\ ingest[i].pc = "capturing"
    /\ ingest[i].response # None
    /\ violations' = add_violation(violations, ingest[i].response[1], i, "CRITICAL")
    /\ ingest' = [ingest EXCEPT ![i].pc = "answered", ![i].answer = "violation_detected"]
    /\ UNCHANGED <<activity_log, activity_response, probe>>

\* the state of the evidence and audit routes, which the monitoring agent
\* reaches only through POST /evidence/capture
services == <<clock, evidence_store, chain_store, evidence_file, chain_file,
              audit_evidence_store, audit_chain_store, req, verification, restarted,
              load_failed, tamper>>

\* -------------------------------------------------------- cognitive agent
\* list.reverse() / reversed(list)
Reverse(list) == [i \in 1..Len(list) |-> list[Len(list) + 1 - i]]

\* activity_log[-limit:] for a limit of one or more
LastOf(list, limit) ==
    IF Len(list) > limit THEN SubSeq(list, Len(list) - limit + 1, Len(list)) ELSE list

\* log_activity: an AgentActivity is appended; the model keeps of it the
\* order in which it was logged (its timestamp)
LogActivity ==
    /\ Len(activity_log) < MaxActivities
    /\ activity_log' = Append(activity_log, Len(activity_log) + 1)
    /\ UNCHANGED <<activity_response, ingest, violations, probe>>

\* the limits a caller passes to /agent/agent-activity
Limits == {1, 2, DefaultLimit}

\* GET /agent/agent-activity: a slice of the log is a new list, but a log of
\* at most `limit` entries is taken as it is, and recent_activities.reverse()
\* then reverses the log itself
GetAgentActivity(limit) ==
    /\ IF Len(activity_log) > limit
       THEN /\ activity_response' = <<[route |-> "agent-activity", limit |-> limit,
                                       activities |-> Reverse(LastOf(activity_log, limit))]>>
            /\ UNCHANGED activity_log
       ELSE /\ activity_log' = Reverse(activity_log)
            /\ activity_response' = <<[route |-> "agent-activity", limit |-> limit,
                                       activities |-> Reverse(activity_log)]>>
    /\ UNCHANGED <<ingest, violations, probe>>

\* GET /agent/activity: reversed(recent_activities) makes a new list
GetActivity ==
    /\ activity_response' = <<[route |-> "activity", limit |-> DefaultLimit,
                               activities |-> Reverse(LastOf(activity_log, DefaultLimit))]>>
    /\ UNCHANGED <<activity_log, ingest, violations, probe>>

\* ----------------------------------------- edits of the file from outside
\* the evidence_data of node k of data/audit_chain.json is edited: its content
\* is replaced, or its timestamp text is rewritten with a space separator
AlterEvidenceData(d, how) ==
    IF how = "payload" THEN [d EXCEPT !.payload = AlteredPayload]
    ELSE [d EXCEPT !.timestamp = [@ EXCEPT !.sep = " "]]

TamperData(k, how) ==
    /\ tamper.kind = "none"
    /\ chain_file.ok
    /\ k \in 1..Len(chain_file.chain)
    /\ chain_file' = [chain_file EXCEPT
                        !.chain[k].evidence_data = AlterEvidenceData(@, how)]
    /\ tamper' = [kind |-> "data", pos |-> k, loaded |-> FALSE]
    /\ UNCHANGED <<clock, evidence_store, chain_store, evidence_file, audit_evidence_store,
                   audit_chain_store, req, verification, restarted, load_failed>>

\* nodes k and k+1 of data/audit_chain.json change places
SwapNodes(k) ==
    /\ tamper.kind = "none"
    /\ chain_file.ok
    /\ k \in 1..(Len(chain_file.chain) - 1)
    /\ chain_file' = [chain_file EXCEPT
                        !.chain[k] = chain_file.chain[k + 1],
                        !.chain[k + 1] = chain_file.chain[k]]
    /\ tamper' = [kind |-> "swap", pos |-> k, loaded |-> FALSE]
    /\ UNCHANGED <<clock, evidence_store, chain_store, evidence_file, audit_evidence_store,
                   audit_chain_store, req, verification, restarted, load_failed>>

\* a field of node k of data/audit_chain.json that no hash covers is edited:
\* its sequence_number, or its top-level evidence_id
TamperedFields == {"sequence_number", "evidence_id"}

TamperField(k, field) ==
    /\ tamper.kind = "none"
    /\ chain_file.ok
    /\ k \in 1..Len(chain_file.chain)
    /\ chain_file' = IF field = "sequence_number"
                     THEN [chain_file EXCEPT !.chain[k].sequence_number = @ + 1]
                     ELSE [chain_file EXCEPT !.chain[k].evidence_id = NoId]
    /\ tamper' = [kind |-> field, pos |-> k, loaded |-> FALSE]
    /\ UNCHANGED <<clock, evidence_store, chain_store, evidence_file, audit_evidence_store,
                   audit_chain_store, req, verification, restarted, load_failed>>

\* ---------------------------------------------------------- specifications
Next ==
    \/ /\ \E r \in Requests, payload \in Payloads, u \in Suffixes, now \in Now :
              CaptureBegin(r, payload, u, now)
       /\ UNCHANGED agents
    \/ /\ \E r \in Requests, outcome \in WriteOutcomes : CaptureSaveIndex(r, outcome)
       /\ UNCHANGED agents
    \/ /\ \E r \in Requests : AppendReadTail(r)
       /\ UNCHANGED agents
    \/ /\ \E r \in Requests : AppendNode(r)
       /\ UNCHANGED agents
    \/ /\ \E r \in Requests, outcome \in WriteOutcomes : CaptureSaveChain(r, outcome)
       /\ UNCHANGED agents
    \/ /\ Verify
       /\ UNCHANGED agents
    \/ /\ Restart
       /\ UNCHANGED agents

\* the service with files that some write may fail to reach
Spec == Init /\ [][Next]_vars

NextTamper ==
    \/ /\ \E r \in Requests, payload \in Payloads, u \in Suffixes, now \in Now :
              CaptureBegin(r, payload, u, now)
       /\ UNCHANGED agents
    \/ /\ \E r \in Requests : CaptureSaveIndex(r, "ok")
       /\ UNCHANGED agents
    \/ /\ \E r \in Requests : AppendReadTail(r)
       /\ UNCHANGED agents
    \/ /\ \E r \in Requests : AppendNode(r)
       /\ UNCHANGED agents
    \/ /\ \E r \in Requests : CaptureSaveChain(r, "ok")
       /\ UNCHANGED agents
    \/ /\ Verify
       /\ UNCHANGED agents
    \/ /\ Restart
       /\ UNCHANGED agents
    \/ /\ \E k \in Requests, how \in {"payload", "timestamp"} : TamperData(k, how)
       /\ UNCHANGED agents
    \/ /\ \E k \in Requests : SwapNodes(k)
       /\ UNCHANGED agents
    \/ /\ \E k \in Requests, field \in TamperedFields : TamperField(k, field)
       /\ UNCHANGED agents

\* the service with writes that succeed and a ledger file edited once from outside
SpecTamper == Init /\ [][NextTamper]_vars

NextCapture ==
    \/ /\ \E r \in Requests, payload \in Payloads, u \in Suffixes, now \in Now :
              CaptureBegin(r, payload, u, now)
       /\ UNCHANGED agents
    \/ /\ \E r \in Requests : CaptureSaveIndex(r, "ok")
       /\ UNCHANGED agents
    \/ /\ \E r \in Requests : AppendReadTail(r)
       /\ UNCHANGED agents
    \/ /\ \E r \in Requests : AppendNode(r)
       /\ UNCHANGED agents
    \/ /\ \E r \in Requests : CaptureSaveChain(r, "ok")
       /\ UNCHANGED agents
    \/ /\ \E r \in Requests, payload \in MalformedPayloads : CaptureMalformed(r, payload)
       /\ UNCHANGED agents
    \/ /\ Verify
       /\ UNCHANGED agents

\* the running service with capture requests, well-formed or not, whose
\* writes succeed, and nothing else
SpecCapture == Init /\ [][NextCapture]_vars

\* the capture requests are the capture calls of the ingest requests: request
\* r is made by ingest request r
NextIngest ==
    \/ /\ \E i \in Requests, found \in BOOLEAN : IngestDetect(i, found)
       /\ UNCHANGED services
    \/ /\ \E r \in Requests, payload \in Payloads, u \in Suffixes, now \in Now :
              /\ ingest[r].pc = "capturing"
              /\ CaptureBegin(r, payload, u, now)
       /\ UNCHANGED agents
    \/ /\ \E r \in Requests : CaptureSaveIndex(r, "ok")
       /\ UNCHANGED agents
    \/ /\ \E r \in Requests : AppendReadTail(r)
       /\ UNCHANGED agents
    \/ /\ \E r \in Requests : AppendNode(r)
       /\ UNCHANGED agents
    \/ \E r \in Requests : /\ CaptureSaveChain(r, "ok")
                            /\ IngestReceive(r, req[r].evidence.evidence_id)
    \/ /\ \E i \in Requests : IngestCaptureFails(i)
       /\ UNCHANGED services
    \/ /\ \E i \in Requests : IngestStore(i)
       /\ UNCHANGED services

\* /monitor/ingest requests with the captures they make
SpecIngest == Init /\ [][NextIngest]_vars

NextActivity ==
    \/ /\ LogActivity
       /\ UNCHANGED services
    \/ /\ \E limit \in Limits : GetAgentActivity(limit)
       /\ UNCHANGED services
    \/ /\ GetActivity
       /\ UNCHANGED services

\* the activity log of the cognitive agent and its two queries
SpecActivity == Init /\ [][NextActivity]_vars

\* the regulation dicts a caller may send: the same two keys in either order
Regulations ==
    {<<Scalar("clause", c), Scalar("framework", "PCI-DSS")>> : c \in {"3.4", "6.5"}}
    \cup {<<Scalar("framework", "PCI-DSS"), Scalar("clause", c)>> : c \in {"3.4", "6.5"}}

\* the contents of a record: detection and regulation in either order
Contents ==
    {<<Scalar("detection", d), Nested("regulation", reg)>> :
        d \in {"MonitoringAgent"}, reg \in Regulations}
    \cup {<<Nested("regulation", reg), Scalar("detection", d)>> :
        d \in {"MonitoringAgent"}, reg \in Regulations}

InitCanonical ==
    /\ clock = 1
    /\ evidence_store = <<>>
    /\ chain_store = <<>>
    /\ evidence_file = EmptyEvidenceFile
    /\ chain_file = EmptyChainFile
    /\ audit_evidence_store = <<>>
    /\ audit_chain_store = <<>>
    /\ req = [r \in Requests |-> NewRequest]
    /\ verification = NoVerification
    /\ restarted = FALSE
    /\ load_failed = FALSE
    /\ tamper = NoTamper
    /\ ingest = [r \in Requests |-> NewIngest]
    /\ violations = <<>>
    /\ activity_log = <<>>
    /\ activity_response = None
    /\ probe \in {[first |-> a, second |-> b, hashes |-> <<>>] : a, b \in Contents}

\* create_node computes the data_hash of each of the two contents
CreateNodeHashes ==
    /\ probe.hashes = <<>>
    /\ probe' = [probe EXCEPT !.hashes = <<data_hash_of(probe.first),
                                           data_hash_of(probe.second)>>]
    /\ UNCHANGED <<clock, evidence_store, chain_store, evidence_file, chain_file,
                   audit_evidence_store, audit_chain_store, req, verification, restarted,
                   load_failed, tamper, ingest, violations, activity_log, activity_response>>

NextCanonical == CreateNodeHashes

\* create_node's hashing applied to two contents built in any order
SpecCanonical == InitCanonical /\ [][NextCanonical]_vars

NextUpdate ==
    \/ /\ \E r \in Requests, payload \in Payloads, u \in Suffixes, now \in Now :
              CaptureBegin(r, payload, u, now)
       /\ UNCHANGED agents
    \/ /\ \E r \in Requests : CaptureSaveIndex(r, "ok")
       /\ UNCHANGED agents
    \/ /\ \E r \in Requests : AppendReadTail(r)
       /\ UNCHANGED agents
    \/ /\ \E r \in Requests : AppendNode(r)
       /\ UNCHANGED agents
    \/ /\ \E r \in Requests : CaptureSaveChain(r, "ok")
       /\ UNCHANGED agents
    \/ /\ Verify
       /\ UNCHANGED agents
    \/ /\ \E id \in KnownOrUnknownIds, updates \in Updates, outcome \in WriteOutcomes :
              UpdateEvidence(id, updates, outcome)
       /\ UNCHANGED agents
    \/ /\ \E r \in Requests, payload \in MalformedPayloads : CaptureMalformed(r, payload)
       /\ UNCHANGED agents

\* the running service with capture writes that succeed, malformed capture
\* requests and records updated after capture
SpecUpdate == Init /\ [][NextUpdate]_vars

\* ------------------------------------------------------------------ claims
Succeeded == {r \in Requests : req[r].pc \in {"returned", "done"}}

\* C1: starting from an empty ledger, after N successful captures (and no
\* restart) the ledger holds exactly N nodes, and the node at position i
\* (0-based) has sequence_number i.
C1_SequenceNumbersGapless ==
    (~restarted /\ Idle) =>
        /\ Len(chain_store) = Cardinality(Succeeded)
        /\ \A i \in 1..Len(chain_store) : chain_store[i].sequence_number = i - 1

C1_Witness ==
    /\ ~restarted /\ Idle
    /\ Cardinality(Succeeded) = MaxCaptures
    /\ Len(chain_store) = MaxCaptures

\* C2: in every ledger state produced by append, also after a restart that
\* loaded a persisted ledger, the first node's previous_hash is null and every
\* later node's previous_hash is the record_hash of the node before it.
C2_ChainLinked ==
    \A i \in 1..Len(chain_store) :
        IF i = 1 THEN chain_store[i].previous_hash = None
        ELSE chain_store[i].previous_hash = chain_store[i - 1].record_hash

C2_Witness ==
    /\ restarted /\ Idle
    /\ Len(audit_chain_store) >= 1
    /\ Len(chain_store) > Len(audit_chain_store) + 1

\* C3: for every node of every ledger state reachable by appends, saves and
\* loads, the stored data_hash is the hash verify recomputes from the stored
\* evidence_data.
C3_DataHashMatchesStoredData ==
    \A i \in 1..Len(chain_store) :
        chain_store[i].data_hash = compute_hash(json_dumps(chain_store[i].evidence_data))

\* C4: saving the ledger and loading it in a fresh service gives back the same
\* node list, and verify answers after the restart what it answered before it.
C4_RoundTripIdentity ==
    Idle =>
        LET reloaded == LoadChain([ok |-> TRUE, chain |-> ChainToJson(chain_store)])
        IN /\ reloaded = chain_store
           /\ verify_chain(reloaded) = verify_chain(chain_store)

\* C5: whenever no append is in progress, the node list in memory is the node
\* list in the persisted file (an append whose save fails leaves no node).
C5_MemoryEqualsDisk ==
    Idle => /\ chain_file.ok
            /\ chain_file.chain = ChainToJson(chain_store)

\* C6: a capture during which the write of the evidence index file or of the
\* ledger file failed answers with an error, never with success.
C6_CaptureFailsOnWriteFailure ==
    \A r \in Requests :
        (req[r].pc = "returned" /\ ~(req[r].index_saved /\ req[r].chain_saved))
            => req[r].response = "error"

\* C7: after any capture, successful or failed, an evidence_id is in the
\* evidence index if and only if the ledger has a node for it.
C7_IndexIffLedger ==
    Idle => StoreIds(evidence_store) = StoreIds(chain_store)

\* C8: captures issued concurrently never interleave their read-tail, create,
\* append and persist steps: at most one is inside the span at a time, the
\* tail a capture read is still the tail when it appends, and no
\* sequence_number is given twice.
C8_AppendsSerialized ==
    /\ \A r, q \in Requests : (InFlight(r) /\ InFlight(q)) => r = q
    /\ \A r \in Requests :
          req[r].pc = "create" =>
              /\ req[r].sequence_number = next_sequence_number(chain_store)
              /\ req[r].previous_hash = tail_hash(chain_store)
    /\ ~restarted =>
          \A i, j \in 1..Len(chain_store) :
              chain_store[i].sequence_number = chain_store[j].sequence_number => i = j

C8_Witness ==
    /\ ~restarted
    /\ \E r, q \in Requests :
          /\ req[r].pc = "create" /\ req[q].pc = "new"
          /\ Len(chain_store) >= 1

\* what GET /audit/verify answered for the ledger loaded from the edited file
TamperVerified == tamper.loaded /\ verification.message # "not called"

ErrorIndexes == 1..Len(verification.errors)

\* C9: with the evidence_data of node k alone edited in the file and the
\* ledger reloaded, verify answers valid=false with a data-hash finding for
\* node k and no finding for any other node.  Stated for the ledgers verify
\* walks (two nodes or more, here with distinct evidence_ids); a one-node
\* ledger is answered valid unread.
C9_TamperPinpointed ==
    (/\ tamper.kind = "data" /\ TamperVerified
     /\ Len(audit_chain_store) >= 2
     /\ Cardinality(StoreIds(audit_chain_store)) = Len(audit_chain_store)) =>
        /\ ~verification.valid
        /\ \E j \in ErrorIndexes :
              /\ verification.errors[j].pos = tamper.pos
              /\ verification.errors[j].issue = "Data hash mismatch"
        /\ \A j \in ErrorIndexes : verification.errors[j].pos = tamper.pos

\* C10: with two adjacent nodes of the file swapped and the ledger reloaded,
\* verify answers valid=false with a broken-link or record-hash finding at one
\* of the two positions.
C10_ReorderDetected ==
    (tamper.kind = "swap" /\ TamperVerified) =>
        /\ ~verification.valid
        /\ \E j \in ErrorIndexes :
              /\ verification.errors[j].pos \in {tamper.pos, tamper.pos + 1}
              /\ verification.errors[j].issue \in
                    {"Hash mismatch - chain broken", "Record hash mismatch"}

C10_Witness ==
    /\ tamper.kind = "swap" /\ tamper.pos = 2
    /\ TamperVerified
    /\ ~verification.valid

\* the keys every finding is to carry
FindingKeys == {"node", "sequence", "issue", "expected", "actual"}

\* every mismatch of a ledger, as <<position, issue>>, found by looking at each
\* node on its own
Mismatches(chain) ==
    {<<i, "Genesis node should have null previous_hash">> :
        i \in {k \in {1} : chain[k].previous_hash # None}}
    \cup {<<i, "Hash mismatch - chain broken">> :
        i \in {k \in 2..Len(chain) : chain[k].previous_hash # chain[k - 1].record_hash}}
    \cup {<<i, "Data hash mismatch">> :
        i \in {k \in 1..Len(chain) :
                 chain[k].data_hash # compute_hash(json_dumps(chain[k].evidence_data))}}
    \cup {<<i, "Record hash mismatch">> :
        i \in {k \in 1..Len(chain) :
                 chain[k].record_hash # compute_hash(hash_input(chain[k].previous_hash,
                                            chain[k].data_hash, chain[k].timestamp))}}

\* C11: one verify call reports every mismatch of every node (null
\* previous_hash of the first node, link of each later node, data_hash and
\* record_hash of each node), and each finding carries the evidence_id, the
\* sequence_number, the issue, the expected value and the actual value.
\* Stated for the ledgers verify walks (two nodes or more).
C11_VerifyReportsAll ==
    (verification.message # "not called" /\ Len(audit_chain_store) >= 2) =>
        /\ \A m \in Mismatches(audit_chain_store) :
              \E j \in ErrorIndexes : /\ verification.errors[j].pos = m[1]
                                      /\ verification.errors[j].issue = m[2]
        /\ \A j \in ErrorIndexes : FindingKeys \subseteq verification.errors[j].keys

\* C12: verify on a ledger with no node or with exactly one node answers
\* valid=true with an empty error list.
C12_SmallLedgerValid ==
    /\ Len(chain_store) <= 1 =>
          /\ verify_chain(chain_store).valid
          /\ verify_chain(chain_store).errors = <<>>
    /\ (verification.message # "not called" /\ Len(audit_chain_store) <= 1) =>
          /\ verification.valid
          /\ verification.errors = <<>>

C12_Witness ==
    /\ restarted
    /\ Len(audit_chain_store) = 1
    /\ verification.message = "Single node (genesis)"

\* C13: a verify call changes neither a ledger in memory nor the persisted
\* files, and a second call on the untouched ledger answers what the first
\* one answered.
C13_VerifyIsPureRead ==
    [][/\ (verification' # verification /\ verification'.message # "not called") =>
             /\ audit_chain_store' = audit_chain_store
             /\ chain_store' = chain_store
             /\ chain_file' = chain_file
             /\ evidence_file' = evidence_file
       /\ (/\ verification.message # "not called"
           /\ verification'.message # "not called"
           /\ audit_chain_store' = audit_chain_store) => verification' = verification
       /\ verification.message # "not called" =>
             verify_chain(audit_chain_store) = verification]_vars

C13_Witness ==
    /\ Len(audit_chain_store) >= 2
    /\ verification.message = ""
    /\ ~verification.valid

IsPrefix(s, t) == Len(s) <= Len(t) /\ \A i \in 1..Len(s) : s[i] = t[i]

\* C14: within a running service no step (of a capture, of update_evidence,
\* of verify) shortens the ledger, and every node stays at its index with
\* every field unchanged.
C14_LedgerOnlyGrows ==
    [][/\ IsPrefix(chain_store, chain_store')
       /\ IsPrefix(audit_chain_store, audit_chain_store')]_vars

C14_Witness ==
    /\ Len(chain_store) = MaxCaptures
    /\ \E i \in 1..Len(evidence_store) : evidence_store[i].payload = AlteredPayload
    /\ verification.message = "Empty chain"

\* C15: every step leaves each of the two files either as it was or holding
\* the complete new content, never a truncated or partly written one.
C15_SaveAtomic ==
    [][/\ \/ chain_file' = chain_file
          \/ chain_file' = [ok |-> TRUE, chain |-> ChainToJson(chain_store')]
       /\ \/ evidence_file' = evidence_file
          \/ evidence_file' = [ok |-> TRUE, evidence |-> EvidenceListToJson(evidence_store')]]_vars

\* C16: the record the evidence index holds under an evidence_id is, at all
\* times, the evidence_data of the ledger node of that evidence_id.
C16_IndexRecordFrozen ==
    \A i \in 1..Len(evidence_store), j \in 1..Len(chain_store) :
        evidence_store[i].evidence_id = chain_store[j].evidence_id =>
            EvidenceToJson(evidence_store[i]) =
                [chain_store[j].evidence_data EXCEPT !.timestamp = JsonValue(@)]

\* C17: after a start that could not read the persisted ledger the service
\* accepts no append on top of the empty ledger it was left with.
C17_LoadFailureSurfaced ==
    load_failed =>
        /\ Len(chain_store) = 0
        /\ \A r \in Requests : ~InFlight(r)

\* C18: once a capture has returned evidence_id E, and with no restart, the
\* audit API's trail holds exactly one node with evidence_id E and its verify
\* counts the node in total_nodes.
C18_AuditSeesCapture ==
    \A r \in Requests :
        (~restarted /\ req[r].pc = "returned") =>
            LET trail == get_audit_trail(audit_chain_store)
            IN /\ Cardinality({i \in 1..trail.count :
                      trail.chain[i].evidence_id = req[r].evidence.evidence_id}) = 1
               /\ total_nodes(audit_chain_store) = <<Len(chain_store)>>

\* C19: an evidence_id that capture has returned is found, with no restart,
\* both by GET /evidence/{id} and by GET /audit/explanation/{id}.
C19_CapturedIsRetrievable ==
    \A r \in Requests :
        (~restarted /\ req[r].pc = "returned") =>
            /\ RouteAnswer(evidence_store, req[r].evidence.evidence_id) = "ok"
            /\ RouteAnswer(audit_evidence_store, req[r].evidence.evidence_id) = "ok"

\* C20: after N successful captures the ledger has N nodes with N different
\* evidence_ids and the evidence index has N entries.
C20_EvidenceIdsDistinct ==
    (~restarted /\ Idle) =>
        /\ Len(chain_store) = Cardinality(Succeeded)
        /\ Cardinality(StoreIds(chain_store)) = Cardinality(Succeeded)
        /\ Len(evidence_store) = Cardinality(Succeeded)

\* C21: a capture request that fails validation is answered with an error
\* and leaves the evidence index, the ledger and both files as they were.
C21_MalformedRejectedBeforeWrite ==
    [][\A r \in Requests :
          /\ (req[r].pc = "new" /\ req'[r].pc = "rejected") =>
                /\ evidence_store' = evidence_store
                /\ chain_store' = chain_store
                /\ evidence_file' = evidence_file
                /\ chain_file' = chain_file
          /\ req'[r].pc = "rejected" => req'[r].response = "error"]_vars

C21_Witness ==
    /\ \E r \in Requests : req[r].pc = "rejected"
    /\ Len(chain_store) >= 1
    /\ Len(evidence_store) >= 1

\* the query parameters tried: absent, or a clock reading / a tenant name
QueryDates == {None} \cup {<<t>> : t \in 1..MaxClock}
QueryTenants == {None, <<"visa">>, <<"acme">>}

\* C22: the evidence list is in ascending timestamp order with and without a
\* date range; with a range it holds exactly the records inside it, with a
\* tenant filter only records of that tenant; count is its length.
C22_ListOrderedAndFiltered ==
    \A start_date \in QueryDates, end_date \in QueryDates, tenant_id \in QueryTenants :
        LET listed == list_evidence(evidence_store, start_date, end_date, tenant_id)
            n == Len(listed.evidence)
            InRange(e) == /\ start_date[1] <= e.timestamp.t
                          /\ e.timestamp.t <= end_date[1]
        IN /\ listed.count = n
           /\ \A i, j \in 1..n :
                 i < j => listed.evidence[i].timestamp.t <= listed.evidence[j].timestamp.t
           /\ tenant_id # None =>
                 \A i \in 1..n : tenant_id_of(listed.evidence[i]) = tenant_id[1]
           /\ (start_date # None /\ end_date # None) =>
                 /\ \A i \in 1..n : InRange(listed.evidence[i])
                 /\ \A k \in 1..Len(evidence_store) :
                       (/\ InRange(evidence_store[k])
                        /\ (tenant_id = None \/ tenant_id_of(evidence_store[k]) = tenant_id[1]))
                       => \E i \in 1..n : listed.evidence[i] = evidence_store[k]

\* the logical content of a dict: its items without their order
RECURSIVE LogicalContent(_)
LogicalContent(d) ==
    {<<d[i].key, d[i].text, LogicalContent(d[i].items)>> : i \in 1..Len(d)}

\* C23: two records with the same keys and values, nested maps included,
\* built in any order, get the same data_hash.
C23_CanonicalSerialization ==
    (probe.hashes # <<>> /\ LogicalContent(probe.first) = LogicalContent(probe.second))
        => probe.hashes[1] = probe.hashes[2]

C23_Witness ==
    /\ probe.hashes # <<>>
    /\ LogicalContent(probe.first) = LogicalContent(probe.second)
    /\ probe.first[1].key # probe.second[1].key
    /\ \E i, j \in 1..2 : /\ probe.first[i].key = "regulation"
                          /\ probe.second[j].key = "regulation"
                          /\ probe.first[i].items # probe.second[j].items

\* the findings of `before` are all among the findings of `after`
FindingsKept(before, after) ==
    \A j \in 1..Len(before.errors) :
        \E i \in 1..Len(after.errors) : after.errors[i] = before.errors[j]

\* C24: a finding verify reports for a node of the ledger is still reported
\* after every step of a running service (appends and their saves): no step
\* other than a restart changes the ledger the audit API verifies, and a step
\* that changes the ledger that takes the appends keeps every finding.
C24_FindingsNeverMasked ==
    [][\/ Restart
       \/ /\ \/ chain_store' = chain_store
             \/ FindingsKept(verify_chain(chain_store), verify_chain(chain_store'))
          /\ audit_chain_store' = audit_chain_store]_vars

C24_Witness ==
    /\ restarted /\ Idle
    /\ Len(audit_chain_store) >= 2
    /\ Len(chain_store) > Len(audit_chain_store)
    /\ FindingsKept(verify_chain(audit_chain_store), verify_chain(chain_store))
    /\ ~verify_chain(audit_chain_store).valid

\* C25: the node list in the ledger file at any time is a prefix of the node
\* list in the file at any later time.
C25_NoPersistedNodeLost ==
    [][IsPrefix(chain_file.chain, chain_file'.chain)]_vars

\* C26: when verify answers valid=true for a loaded ledger, the node at
\* position i has sequence_number i, and the file the ledger was loaded from
\* is not one in which a sequence_number or a top-level evidence_id was edited.
C26_ValidMeansStructurallySound ==
    (TamperVerified /\ verification.valid) =>
        /\ \A i \in 1..Len(audit_chain_store) : audit_chain_store[i].sequence_number = i - 1
        /\ tamper.kind \notin TamperedFields

\* hashes of a node that was never in the ledger
ForgedDataHash == compute_hash(json_dumps(model_dump(NoEvidence)))
ForgedRecordHash == compute_hash(hash_input(None, ForgedDataHash, Datetime(0)))

HashedFields == {"evidence_data", "timestamp", "previous_hash", "data_hash", "record_hash"}

\* node n with the fields of `fields` changed, and then its data_hash and its
\* record_hash recomputed from what it holds if asked for
TamperedNode(n, fields, rehash_data, rehash_record) ==
    LET edited ==
            [evidence_id |-> n.evidence_id,
             sequence_number |-> n.sequence_number,
             evidence_data |-> IF "evidence_data" \in fields
                               THEN [n.evidence_data EXCEPT !.payload = AlteredPayload]
                               ELSE n.evidence_data,
             timestamp |-> IF "timestamp" \in fields
                           THEN Datetime(n.timestamp.t + 1) ELSE n.timestamp,
             previous_hash |-> IF "previous_hash" \in fields
                               THEN ForgedRecordHash ELSE n.previous_hash,
             data_hash |-> IF "data_hash" \in fields THEN ForgedDataHash ELSE n.data_hash,
             record_hash |-> IF "record_hash" \in fields
                             THEN ForgedRecordHash ELSE n.record_hash]
        with_data == IF rehash_data
                     THEN [edited EXCEPT
                             !.data_hash = compute_hash(json_dumps(edited.evidence_data))]
                     ELSE edited
    IN IF rehash_record
       THEN [with_data EXCEPT !.record_hash =
               compute_hash(hash_input(with_data.previous_hash, with_data.data_hash,
                                       with_data.timestamp))]
       ELSE with_data

\* C27: in a ledger of two nodes or more that verify finds valid, any change
\* of one non-tail node's evidence_data, timestamp, previous_hash, data_hash
\* or record_hash, in any combination and with or without its hashes
\* recomputed, makes verify answer valid=false.
C27_NonTailTamperDetected ==
    (Idle /\ Len(chain_store) >= 2 /\ verify_chain(chain_store).valid) =>
        \A k \in 1..(Len(chain_store) - 1), fields \in SUBSET HashedFields,
           rehash_data \in BOOLEAN, rehash_record \in BOOLEAN :
            LET node == TamperedNode(chain_store[k], fields, rehash_data, rehash_record)
            IN node # chain_store[k] =>
                  ~verify_chain([chain_store EXCEPT ![k] = node]).valid

C27_Witness ==
    /\ Idle /\ Len(chain_store) >= 3
    /\ verify_chain(chain_store).valid
    /\ TamperedNode(chain_store[2], {"evidence_data"}, TRUE, TRUE) # chain_store[2]
    /\ ~verify_chain([chain_store EXCEPT
           ![2] = TamperedNode(chain_store[2], {"evidence_data"}, TRUE, TRUE)]).valid

\* a step in which a record of the evidence index is replaced by another one
\* under the same evidence_id
IndexRecordReplaced ==
    /\ StoreIds(evidence_store') = StoreIds(evidence_store)
    /\ evidence_store' # evidence_store

\* C28: update_evidence changes only the evidence index: the ledger's node
\* list with every field of every node, the ledger file and what verify
\* answers are the same after the call; for an unknown evidence_id it changes
\* nothing at all.
C28_UpdateTouchesIndexOnly ==
    [][/\ IndexRecordReplaced =>
             /\ chain_store' = chain_store
             /\ audit_chain_store' = audit_chain_store
             /\ chain_file' = chain_file
             /\ verify_chain(chain_store') = verify_chain(chain_store)
             /\ verification' = verification
       /\ \A updates \in Updates, outcome \in WriteOutcomes :
             UpdateEvidence(NoId, updates, outcome) => UNCHANGED vars]_vars

C28_Witness ==
    /\ Len(chain_store) >= 2
    /\ \E i \in 1..Len(evidence_store) :
          /\ evidence_store[i].payload = AlteredPayload
          /\ \E j \in 1..Len(chain_store) :
                /\ chain_store[j].evidence_id = evidence_store[i].evidence_id
                /\ chain_store[j].evidence_data.payload # AlteredPayload
    /\ verify_chain(chain_store).valid
    /\ chain_file.chain = ChainToJson(chain_store)

\* C29: a violation record is written to the violation store only once the
\* capture call has returned the evidence_id it carries; an ingest request
\* whose capture call failed is answered with an error and has no record.
C29_ViolationAfterEvidence ==
    [][/\ (/\ Len(violations') = Len(violations) + 1
           /\ violations'[Len(violations')].severity # "None") =>
             LET record == violations'[Len(violations')]
             IN /\ ingest[record.source_id].response = <<record.evidence_id>>
                /\ HasKey(chain_store, record.evidence_id)
       /\ \A i \in Requests :
             ingest'[i].failed =>
                /\ ingest'[i].answer = "error"
                /\ \A k \in 1..Len(violations') : violations'[k].source_id # i]_vars

C29_Witness ==
    \E i, j \in Requests :
        /\ ingest[i].failed /\ ingest[i].answer = "error"
        /\ ingest[j].answer = "violation_detected"
        /\ \E k \in 1..Len(violations) :
              /\ violations[k].source_id = j
              /\ HasKey(chain_store, violations[k].evidence_id)

\* a list of activities in the order they were logged / most recent first
Chronological(list) == \A i, j \in 1..Len(list) : i < j => list[i] < list[j]
MostRecentFirst(list) == \A i, j \in 1..Len(list) : i < j => list[i] > list[j]

\* C30: GET /agent/agent-activity returns at most `limit` activities, the
\* most recent ones and most recent first, and leaves the activity log as it
\* was: in chronological order, and unchanged by a query.
C30_ActivityQueryReadOnly ==
    /\ Chronological(activity_log)
    /\ activity_response # None =>
          LET answer == activity_response[1]
          IN /\ Len(answer.activities) <= answer.limit
             /\ MostRecentFirst(answer.activities)

====
